---- MODULE Spec2Model ----
(***************************************************************************)
(* Egyptian ID card scanner: the national-ID decoder, the bounding-box     *)
(* helper, the digit assembler, the extraction pipeline of utils.py and    *)
(* the capture-and-review workflow of APP.py.                              *)
(*                                                                         *)
(* Python strings the program takes apart character by character are       *)
(* sequences of one-character strings (the empty string is << >>); the     *)
(* governorate and gender names, which the program only passes around, are *)
(* atomic strings (the empty string is "").                                *)
(***************************************************************************)
EXTENDS Integers, Sequences, FiniteSets, TLC

VARIABLES
    pc,             \* position of the running call
    id_number,      \* decode_egyptian_id: its argument
    decoded,        \* decode_egyptian_id: its return value
    bbox,           \* expand_bbox_height: the box [x1, y1, x2, y2]
    scale,          \* expand_bbox_height: the scale, a fraction <<num, den>>
    image_shape,    \* expand_bbox_height: (height, width) of the image
    expanded_bbox,  \* expand_bbox_height: its return value
    models_loaded,  \* whether the module-level detectors and reader loaded
    digit_results,  \* detect_national_id_digits: the digit detector's answer
    nid_string,     \* detect_national_id_digits: its return value
    image,          \* detect_and_process_id_card: what cv2.imread returned
    id_card_results,\* detect_and_process_id_card: the card detector's answer
    best_box,       \* detect_and_process_id_card: the box chosen as the card
    cropped_image,  \* detect_and_process_id_card: the crop, or None
    field_results,  \* process_fields: the field detector's answer
    fields_locals,  \* process_fields: first_name, second_name, address, nid
    rec,            \* detect_and_process_id_card: its eight return values
    calls,          \* the capabilities and the decoder invoked by this call
    caught,         \* whether the except clause of the call has run
    outcome,        \* how the call ended: "returned" or "raised"
    id_database,    \* APP: st.session_state.id_database, a list of rows
    db_file,        \* APP: the rows in database.xlsx, None when absent
    source,         \* APP: where the image came from, "camera" or "upload"
    save_clicked,   \* APP: what st.button("Save ...") returns in this run
    ui              \* APP: the message shown and whether Save is on the page

decodeVars == <<id_number, decoded>>
expandVars == <<bbox, scale, image_shape, expanded_bbox>>
digitVars == <<digit_results, nid_string>>

pipelineVars == <<image, id_card_results, best_box, cropped_image, field_results,
                  fields_locals, rec, calls, caught, outcome>>
appVars == <<id_database, db_file, source, save_clicked, ui>>

vars == <<pc, decodeVars, expandVars, models_loaded, digitVars, pipelineVars, appVars>>

\* the value of a variable no call has set
None == "None"

\* Python's None where an image or a box is expected
NoneImage == <<-1, -1, -1, -1>>

Min(a, b) == IF a <= b THEN a ELSE b
Max(a, b) == IF a >= b THEN a ELSE b

(***************************************************************************)
(* Python built-ins the decoder relies on: str.strip, int(str), slicing    *)
(* and the format specification 0<width>d.                                 *)
(***************************************************************************)
DigitChars == <<"0", "1", "2", "3", "4", "5", "6", "7", "8", "9">>
Digit == {DigitChars[i] : i \in 1..10}
DigitValue(c) == (CHOOSE i \in 1..10 : DigitChars[i] = c) - 1

IsSpace(c) == c = " "

RECURSIVE lstrip(_)
lstrip(s) == IF s # << >> /\ IsSpace(Head(s)) THEN lstrip(Tail(s)) ELSE s

RECURSIVE rstrip(_)
rstrip(s) ==
    IF s # << >> /\ IsSpace(s[Len(s)]) THEN rstrip(SubSeq(s, 1, Len(s) - 1)) ELSE s

strip(s) == rstrip(lstrip(s))

\* s[a:b], 0-based, clipped to the string
Slice(s, a, b) == SubSeq(s, a + 1, Min(b, Len(s)))

\* the decimal literal int() accepts after the sign: digits, single
\* underscores between digits
IntLiteralOk(b) ==
    /\ b # << >>
    /\ b[1] \in Digit
    /\ b[Len(b)] \in Digit
    /\ \A i \in 1..Len(b) : b[i] \in Digit \cup {"_"}
    /\ \A i \in 1..(Len(b) - 1) : ~(b[i] = "_" /\ b[i + 1] = "_")

RECURSIVE DigitsValue(_)
DigitsValue(b) ==
    IF b = << >> THEN 0
    ELSE LET init == SubSeq(b, 1, Len(b) - 1)
             last == b[Len(b)]
         IN  IF last = "_" THEN DigitsValue(init)
             ELSE 10 * DigitsValue(init) + DigitValue(last)

\* int(s): ok is FALSE where Python raises ValueError
py_int(s) ==
    LET t == strip(s)
        signed == t # << >> /\ t[1] \in {"+", "-"}
        neg == t # << >> /\ t[1] = "-"
        b == IF signed THEN Tail(t) ELSE t
    IN  IF IntLiteralOk(b)
        THEN [ok |-> TRUE, val |-> IF neg THEN 0 - DigitsValue(b) ELSE DigitsValue(b)]
        ELSE [ok |-> FALSE, val |-> 0]

RECURSIVE NatStr(_)
NatStr(n) ==
    IF n < 10 THEN <<DigitChars[n + 1]>>
    ELSE NatStr(n \div 10) \o <<DigitChars[(n % 10) + 1]>>

RECURSIVE ZeroPad(_, _)
ZeroPad(s, w) == IF Len(s) >= w THEN s ELSE ZeroPad(<<"0">> \o s, w)

\* f"{n:0<w>d}": zero padding goes after the sign
format_0d(n, w) ==
    IF n < 0 THEN <<"-">> \o ZeroPad(NatStr(0 - n), w - 1) ELSE ZeroPad(NatStr(n), w)

(***************************************************************************)
(* decode_egyptian_id                                                      *)
(***************************************************************************)
IdLen == 14

governorates ==
    (<<"0", "1">> :> "Cairo") @@ (<<"0", "2">> :> "Alexandria") @@
    (<<"0", "3">> :> "Port Said") @@ (<<"0", "4">> :> "Suez") @@
    (<<"1", "1">> :> "Damietta") @@ (<<"1", "2">> :> "Dakahlia") @@
    (<<"1", "3">> :> "Ash Sharqia") @@ (<<"1", "4">> :> "Kaliobeya") @@
    (<<"1", "5">> :> "Kafr El - Sheikh") @@ (<<"1", "6">> :> "Gharbia") @@
    (<<"1", "7">> :> "Monoufia") @@ (<<"1", "8">> :> "El Beheira") @@
    (<<"1", "9">> :> "Ismailia") @@ (<<"2", "1">> :> "Giza") @@
    (<<"2", "2">> :> "Beni Suef") @@ (<<"2", "3">> :> "Fayoum") @@
    (<<"2", "4">> :> "El Menia") @@ (<<"2", "5">> :> "Assiut") @@
    (<<"2", "6">> :> "Sohag") @@ (<<"2", "7">> :> "Qena") @@
    (<<"2", "8">> :> "Aswan") @@ (<<"2", "9">> :> "Luxor") @@
    (<<"3", "1">> :> "Red Sea") @@ (<<"3", "2">> :> "New Valley") @@
    (<<"3", "3">> :> "Matrouh") @@ (<<"3", "4">> :> "North Sinai") @@
    (<<"3", "5">> :> "South Sinai") @@ (<<"8", "8">> :> "Foreign")

DecodeResult(birth_date, governorate, gender) ==
    ("Birth Date" :> birth_date) @@ ("Governorate" :> governorate) @@
    ("Gender" :> gender)

DecodeFailure == DecodeResult(<< >>, "", "")

full_year_all_1900(century_digit, year) == 1900 + year

full_year(century_digit, year) ==
    (IF century_digit = 2 THEN 1900 ELSE 2000) + year

governorate_code_shifted(id) == Slice(id, 8, 10)

governorate_code(id) == Slice(id, 7, 9)

governorates_get(code, default) ==
    IF code \in DOMAIN governorates THEN governorates[code] ELSE default

decode_egyptian_id(id) ==
    IF id = << >> \/ Len(id) # IdLen THEN DecodeFailure
    ELSE LET century_digit == py_int(Slice(id, 0, 1))
             year == py_int(Slice(id, 1, 3))
             month == py_int(Slice(id, 3, 5))
             day == py_int(Slice(id, 5, 7))
             gender_code == py_int(Slice(id, 12, 13))
         IN  IF century_digit.ok /\ year.ok /\ month.ok /\ day.ok /\ gender_code.ok
             THEN LET gender == IF gender_code.val % 2 # 0 THEN "Male" ELSE "Female"
                      governorate == governorates_get(governorate_code(id), "Unknown")
                      birth_date ==
                          format_0d(full_year(century_digit.val, year.val), 4)
                              \o <<"-">> \o format_0d(month.val, 2)
                              \o <<"-">> \o format_0d(day.val, 2)
                  IN  DecodeResult(birth_date, governorate, gender)
             ELSE DecodeFailure

(***************************************************************************)
(* Inputs of the decoder                                                   *)
(***************************************************************************)
MaxIdLen == 15

NonDigit == {"X", " ", "+", "-", "_"}
Alphabet == Digit \cup NonDigit

ExampleId == <<"2", "9", "0", "0", "1", "0", "1", "1", "5", "0", "0", "0", "1", "5">>

BaseIds ==
    { <<c>> \o yy \o mm \o dd \o gov \o <<"0", "0", "0", g, "5">> :
        c \in {"2", "3"},
        yy \in {<<"9", "0">>, <<"0", "5">>},
        mm \in {<<"0", "1">>, <<"1", "3">>},
        dd \in {<<"0", "1">>, <<"3", "2">>},
        gov \in {<<"1", "5">>, <<"0", "1">>, <<"8", "8">>, <<"9", "9">>},
        g \in {"1", "2"} }

\* s cut or padded to n characters
Resize(s, n) == [i \in 1..n |-> IF i <= Len(s) THEN s[i] ELSE "7"]

IdInputs ==
    { [b EXCEPT ![i] = ch] : b \in BaseIds, i \in 1..IdLen, ch \in Alphabet }
        \cup { Resize(b, n) : b \in BaseIds, n \in 0..MaxIdLen }

IdleDecode == id_number = None /\ decoded = None
IdleExpand == bbox = None /\ scale = None /\ image_shape = None /\ expanded_bbox = None
IdleDigits == digit_results = None /\ nid_string = None
IdlePipeline ==
    /\ image = None /\ id_card_results = None /\ best_box = None
    /\ cropped_image = None /\ field_results = None /\ fields_locals = None
    /\ rec = None /\ calls = {} /\ caught = FALSE /\ outcome = None
IdleApp ==
    /\ id_database = << >> /\ db_file = None /\ source = None
    /\ save_clicked = FALSE /\ ui = None

InitDecode ==
    /\ pc = "call"
    /\ id_number \in IdInputs
    /\ decoded = None
    /\ models_loaded = TRUE
    /\ IdleExpand /\ IdleDigits /\ IdlePipeline /\ IdleApp

Decode ==
    /\ pc = "call"
    /\ decoded' = decode_egyptian_id(id_number)
    /\ pc' = "return"
    /\ UNCHANGED <<id_number, expandVars, models_loaded, digitVars, pipelineVars, appVars>>

NextDecode == Decode

SpecDecode == InitDecode /\ [][NextDecode]_vars

AllDigits(s) == \A i \in 1..Len(s) : s[i] \in Digit

\* C1: decode_egyptian_id returns the failure value for every input whose
\* length is not 14 and for every 14-character input holding a non-digit
\* character at any position.
C1_FailureOnMalformed ==
    (pc = "return" /\ (Len(id_number) # IdLen \/ ~AllDigits(id_number)))
        => decoded = DecodeFailure

\* C2: for a 14-digit id starting with 2 or 3 the birth date is
\* YYYY-MM-DD with YYYY = 19yy (first digit 2) or 20yy (first digit 3),
\* MM and DD the id's own two digits (no calendar check), and the gender is
\* Male for an odd digit at index 12, Female for an even one.
C2_BirthDateAndGender ==
    (pc = "return" /\ Len(id_number) = IdLen /\ AllDigits(id_number)
        /\ id_number[1] \in {"2", "3"})
        => /\ decoded["Birth Date"] =
                (IF id_number[1] = "2" THEN <<"1", "9">> ELSE <<"2", "0">>)
                    \o <<id_number[2], id_number[3], "-", id_number[4], id_number[5],
                         "-", id_number[6], id_number[7]>>
           /\ decoded["Gender"] =
                (IF id_number[13] \in {"1", "3", "5", "7", "9"} THEN "Male" ELSE "Female")

C2_Witness ==
    /\ pc = "return"
    /\ id_number = <<"3", "0", "5", "1", "3", "3", "2", "0", "1", "0", "0", "0", "2", "5">>
    /\ decoded["Birth Date"] = <<"2", "0", "0", "5", "-", "1", "3", "-", "3", "2">>
    /\ decoded["Gender"] = "Female"

\* C3 as stated: the governorate is the table's name for digits[7:9], else
\* "Unknown", and the id 29001011500015 decodes to "Kafr El-Sheikh", Male.
C3_Original ==
    (pc = "return" /\ Len(id_number) = IdLen /\ AllDigits(id_number))
        => /\ decoded["Governorate"] =
                (IF <<id_number[8], id_number[9]>> \in DOMAIN governorates
                    THEN governorates[<<id_number[8], id_number[9]>>] ELSE "Unknown")
           /\ id_number = ExampleId =>
                (decoded["Governorate"] = "Kafr El-Sheikh" /\ decoded["Gender"] = "Male")

\* C3 amended: the governorate is the table's name for digits[7:9], else
\* "Unknown", and the id 29001011500015 decodes to the table's spelling
\* "Kafr El - Sheikh" and to Male.
C3_GovernorateLookup ==
    (pc = "return" /\ Len(id_number) = IdLen /\ AllDigits(id_number))
        => /\ decoded["Governorate"] =
                (IF <<id_number[8], id_number[9]>> \in DOMAIN governorates
                    THEN governorates[<<id_number[8], id_number[9]>>] ELSE "Unknown")
           /\ id_number = ExampleId =>
                (decoded["Governorate"] = "Kafr El - Sheikh" /\ decoded["Gender"] = "Male")

C3_Witness ==
    /\ pc = "return"
    /\ id_number = ExampleId
    /\ decoded = DecodeResult(<<"1", "9", "9", "0", "-", "0", "1", "-", "0", "1">>,
                              "Kafr El - Sheikh", "Male")

(***************************************************************************)
(* expand_bbox_height                                                      *)
(***************************************************************************)
\* int(x) of the quotient n / d: truncation toward zero
py_int_of_quotient(n, d) == IF n >= 0 THEN n \div d ELSE 0 - ((0 - n) \div d)

\* The scale is the fraction sc[1] / sc[2]; the denominators used (1, 2, 4)
\* make it a binary fraction, so height * scale is exact in floating point.
expand_bbox_height_unclamped(box, sc, shape) ==
    LET height == box[4] - box[2]
        center_y == box[2] + height \div 2
        new_height == py_int_of_quotient(height * sc[1], sc[2])
    IN  <<box[1], center_y - new_height \div 2, box[3], center_y + new_height \div 2>>

expand_bbox_height(box, sc, shape) ==
    LET x1 == box[1]
        y1 == box[2]
        x2 == box[3]
        y2 == box[4]
        height == y2 - y1
        center_y == y1 + height \div 2
        new_height == py_int_of_quotient(height * sc[1], sc[2])
        new_y1 == Max(center_y - new_height \div 2, 0)
        new_y2 == Min(center_y + new_height \div 2, shape[1])
    IN  <<x1, new_y1, x2, new_y2>>

DefaultScale == <<3, 2>>

MaxImageHeight == 20
MaxScale == 3
ImageWidth == 100

ScaleInputs == { <<n, d>> : n \in 1..(4 * MaxScale), d \in {1, 2, 4} }

InitExpand ==
    /\ pc = "call"
    /\ image_shape \in { <<h, ImageWidth>> : h \in 1..MaxImageHeight }
    /\ bbox \in { <<x[1], y1, x[2], y2>> :
                    x \in {<<10, 50>>, <<0, 3>>},
                    y1 \in 0..MaxImageHeight, y2 \in 0..MaxImageHeight }
    /\ bbox[2] <= bbox[4] /\ bbox[4] <= image_shape[1]
    /\ scale \in ScaleInputs
    /\ scale[1] <= MaxScale * scale[2]
    /\ expanded_bbox = None
    /\ models_loaded = TRUE
    /\ IdleDecode /\ IdleDigits /\ IdlePipeline /\ IdleApp

Expand ==
    /\ pc = "call"
    /\ expanded_bbox' = expand_bbox_height(bbox, scale, image_shape)
    /\ pc' = "return"
    /\ UNCHANGED <<bbox, scale, image_shape, decodeVars, models_loaded, digitVars,
                   pipelineVars, appVars>>

NextExpand == Expand

SpecExpand == InitExpand /\ [][NextExpand]_vars

ExpandPrecondition ==
    /\ pc = "return"
    /\ 0 <= bbox[2] /\ bbox[2] < bbox[4] /\ bbox[4] <= image_shape[1]
    /\ scale[1] >= scale[2]
    /\ image_shape[1] > 0

\* C4 as stated: for 0 <= y1 < y2 <= H, scale >= 1 and H > 0 both returned
\* y-coordinates lie in the half-open range [0, H) and x1, x2 are unchanged.
C4_Original ==
    ExpandPrecondition
        => /\ 0 <= expanded_bbox[2] /\ expanded_bbox[2] < image_shape[1]
           /\ 0 <= expanded_bbox[4] /\ expanded_bbox[4] < image_shape[1]
           /\ expanded_bbox[1] = bbox[1] /\ expanded_bbox[3] = bbox[3]

\* C4 amended: for 0 <= y1 < y2 <= H, scale >= 1 and H > 0 the returned y1
\* lies in [0, H) and the returned y2 in [0, H] (it may equal the image
\* height, never exceed it), and x1, x2 are unchanged.
C4_ClampedToImage ==
    ExpandPrecondition
        => /\ 0 <= expanded_bbox[2] /\ expanded_bbox[2] < image_shape[1]
           /\ 0 <= expanded_bbox[4] /\ expanded_bbox[4] <= image_shape[1]
           /\ expanded_bbox[1] = bbox[1] /\ expanded_bbox[3] = bbox[3]

C4_Witness ==
    /\ pc = "return"
    /\ bbox = <<10, 5, 50, 15>> /\ scale = <<2, 1>> /\ image_shape = <<20, ImageWidth>>
    /\ expanded_bbox = <<10, 0, 50, 20>>

(***************************************************************************)
(* detect_national_id_digits                                               *)
(***************************************************************************)
\* list.sort(key=...): stable, ascending by key; here by insertion
RECURSIVE insert_by_x1(_, _)
insert_by_x1(sorted, item) ==
    IF sorted = << >> THEN <<item>>
    ELSE IF sorted[Len(sorted)][2] <= item[2] THEN Append(sorted, item)
    ELSE Append(insert_by_x1(SubSeq(sorted, 1, Len(sorted) - 1), item),
                sorted[Len(sorted)])

RECURSIVE sort_by_x1(_)
sort_by_x1(info) ==
    IF info = << >> THEN << >>
    ELSE insert_by_x1(sort_by_x1(SubSeq(info, 1, Len(info) - 1)), info[Len(info)])

RECURSIVE join_classes(_)
join_classes(info) ==
    IF info = << >> THEN << >> ELSE NatStr(info[1][1]) \o join_classes(Tail(info))

\* results: one entry per image, each the sequence of its boxes
RECURSIVE collect_boxes(_)
collect_boxes(results) ==
    IF results = << >> THEN << >> ELSE results[1] \o collect_boxes(Tail(results))

detect_national_id_digits_unsorted(loaded, results) ==
    IF ~loaded THEN << >> ELSE join_classes(collect_boxes(results))

\* a box of the digit detector is <<cls, x1>>
detect_national_id_digits(loaded, results) ==
    IF ~loaded THEN << >>
    ELSE LET detected_info == collect_boxes(results)
         IN  join_classes(sort_by_x1(detected_info))

MaxDigits == 4

DigitBoxes == { <<cls, x1>> : cls \in {1, 5, 9}, x1 \in {10, 30, 50} }

RECURSIVE SeqsUpTo(_, _)
SeqsUpTo(S, n) ==
    IF n = 0 THEN {<< >>}
    ELSE LET shorter == SeqsUpTo(S, n - 1)
         IN  shorter \cup { Append(q, e) : q \in shorter, e \in S }

InitDigits ==
    /\ pc = "call"
    /\ models_loaded \in BOOLEAN
    /\ digit_results \in { <<boxes>> : boxes \in SeqsUpTo(DigitBoxes, MaxDigits) }
    /\ nid_string = None
    /\ IdleDecode /\ IdleExpand /\ IdlePipeline /\ IdleApp

AssembleDigits ==
    /\ pc = "call"
    /\ nid_string' = detect_national_id_digits(models_loaded, digit_results)
    /\ pc' = "return"
    /\ UNCHANGED <<digit_results, models_loaded, decodeVars, expandVars, pipelineVars,
                   appVars>>

NextDigits == AssembleDigits

SpecDigits == InitDigits /\ [][NextDigits]_vars

\* the place detection k takes in reading order: after every detection
\* further left, and after the earlier ones at the same x1
ReadingRank(boxes, k) ==
    Cardinality({ j \in 1..Len(boxes) :
                    \/ boxes[j][2] < boxes[k][2]
                    \/ (boxes[j][2] = boxes[k][2] /\ j < k) }) + 1

\* C9: the assembled string holds exactly one character per detection, the
\* class labels in ascending order of x1 (nothing filtered, nothing
\* deduplicated); x1 [50, 10, 30] with classes [9, 1, 5] gives "159".
C9_DigitsInReadingOrder ==
    (pc = "return" /\ models_loaded)
        => LET boxes == digit_results[1]
           IN  /\ Len(nid_string) = Len(boxes)
               /\ \A k \in 1..Len(boxes) :
                    nid_string[ReadingRank(boxes, k)] = DigitChars[boxes[k][1] + 1]
               /\ boxes = <<<<9, 50>>, <<1, 10>>, <<5, 30>>>>
                    => nid_string = <<"1", "5", "9">>

C9_Witness ==
    /\ pc = "return" /\ models_loaded
    /\ digit_results = <<<<<<9, 50>>, <<1, 10>>, <<5, 30>>>>>>
    /\ nid_string = <<"1", "5", "9">>

(***************************************************************************)
(* extract_text, process_fields, detect_and_process_id_card                *)
(*                                                                         *)
(* An image is the region <<x1, y1, x2, y2>> of the photograph it shows,   *)
(* in whole pixels; what the detectors and the OCR reader answer on it is  *)
(* chosen by the environment when they are called.                         *)
(***************************************************************************)
shape(img) == <<Max(img[4] - img[2], 0), Max(img[3] - img[1], 0)>>

\* img[y1:y2, x1:x2] (the indices are non-negative)
crop(img, y1, y2, x1, x2) ==
    LET h == shape(img)[1]
        w == shape(img)[2]
    IN  <<img[1] + Min(x1, w), img[2] + Min(y1, h),
          img[1] + Min(x2, w), img[2] + Min(y2, h)>>

RECURSIVE join_with_space(_)
join_with_space(texts) ==
    IF texts = << >> THEN << >>
    ELSE IF Len(texts) = 1 THEN texts[1]
    ELSE texts[1] \o <<" ">> \o join_with_space(Tail(texts))

\* ocr: the list of paragraphs reader.readtext returns for the box
extract_text(ocr) == strip(join_with_space(ocr))

EmptyLocals ==
    [first_name |-> << >>, second_name |-> << >>, address |-> << >>, nid |-> << >>,
     cropped_nid_area |-> NoneImage]

\* one iteration of the loop over the detected boxes
process_box(locals, cropped, loaded, box) ==
    CASE box.class_name = "firstName" ->
            [locals EXCEPT !.first_name = extract_text(box.ocr)]
      [] box.class_name = "lastName" ->
            [locals EXCEPT !.second_name = extract_text(box.ocr)]
      [] box.class_name = "address" ->
            [locals EXCEPT !.address = extract_text(box.ocr)]
      [] box.class_name = "nid" ->
            LET expanded == expand_bbox_height(box.bbox, DefaultScale, shape(cropped))
            IN  [locals EXCEPT
                    !.cropped_nid_area =
                        crop(cropped, expanded[2], expanded[4], expanded[1], expanded[3]),
                    !.nid = detect_national_id_digits(loaded, box.digits)]
      [] OTHER -> locals

\* the locals of process_fields after the first n boxes
RECURSIVE process_boxes(_, _, _, _)
process_boxes(cropped, loaded, boxes, n) ==
    IF n = 0 THEN EmptyLocals
    ELSE process_box(process_boxes(cropped, loaded, boxes, n - 1), cropped, loaded,
                     boxes[n])

full_name_of(first_name, second_name) == strip(first_name \o <<" ">> \o second_name)

fields_return_swapped(locals) ==
    <<locals.first_name, locals.second_name,
      full_name_of(locals.first_name, locals.second_name), locals.address, locals.nid>>

\* return first_name, second_name, full_name, nid, address
fields_return(locals) ==
    <<locals.first_name, locals.second_name,
      full_name_of(locals.first_name, locals.second_name), locals.nid, locals.address>>

EmptyRecord ==
    [first_name |-> << >>, second_name |-> << >>, full_name |-> << >>, nid |-> << >>,
     address |-> << >>, birth |-> << >>, gov |-> "", gender |-> ""]

Area(box) == (box[3] - box[1]) * (box[4] - box[2])

select_first_box(boxes) == boxes[1]

\* max(boxes, key=area): the first box of the largest area
select_best_box(boxes) ==
    LET best[i \in 1..Len(boxes)] ==
            IF i = 1 THEN boxes[1]
            ELSE IF Area(boxes[i]) > Area(best[i - 1]) THEN boxes[i] ELSE best[i - 1]
    IN  best[Len(boxes)]

card_found(results) == results # << >> /\ Len(results[1]) > 0

locate_card_whole_image_fallback(img, results) ==
    IF card_found(results)
    THEN LET b == select_best_box(results[1])
         IN  [best_box |-> b, cropped_image |-> crop(img, b[2], b[4], b[1], b[3])]
    ELSE [best_box |-> NoneImage, cropped_image |-> img]

locate_card(img, results) ==
    IF card_found(results)
    THEN LET b == select_best_box(results[1])
         IN  [best_box |-> b, cropped_image |-> crop(img, b[2], b[4], b[1], b[3])]
    ELSE [best_box |-> NoneImage, cropped_image |-> NoneImage]

exception_outcome_reraise == "raised"

\* except Exception: print and fall through to the return
exception_outcome == "returned"

(***************************************************************************)
(* What the environment can answer                                         *)
(***************************************************************************)
PhotoWidth == 30
PhotoHeight == 20
MaxCards == 2
MaxFields == 2

Photo == <<0, 0, PhotoWidth, PhotoHeight>>

CardBox100 == <<0, 0, 10, 10>>
CardBox400 == <<5, 0, 25, 20>>
CardBox200 == <<2, 2, 22, 12>>
CardBoxes == {CardBox100, CardBox400, CardBox200}

CardAnswers == {<< >>} \cup { <<boxes>> : boxes \in SeqsUpTo(CardBoxes, MaxCards) }

TextBox(class_name, box, ocr) ==
    [class_name |-> class_name, bbox |-> box, ocr |-> ocr, digits |-> << >>]
NidBox(box, boxes) ==
    [class_name |-> "nid", bbox |-> box, ocr |-> << >>, digits |-> <<boxes>>]

Digits159 == <<<<9, 50>>, <<1, 10>>, <<5, 30>>>>
DigitsExample == [i \in 1..IdLen |-> <<DigitValue(ExampleId[i]), 10 * i>>]

FieldBoxes ==
    { TextBox("firstName", <<1, 1, 8, 3>>, ocr) : ocr \in {<< >>, <<<<"A">>>>} }
        \cup { TextBox("lastName", <<1, 3, 8, 5>>, <<<<"B">>>>) }
        \cup { TextBox("address", <<1, 5, 8, 7>>, ocr) :
                    ocr \in {<< >>, <<<<"C">>, <<"D", " ">>>>} }
        \cup { NidBox(<<1, 7, 9, 10>>, boxes) : boxes \in {<< >>, Digits159, DigitsExample} }
        \cup { TextBox("serial", <<1, 9, 8, 10>>, << >>) }

FieldAnswers == {<< >>} \cup { <<boxes>> : boxes \in SeqsUpTo(FieldBoxes, MaxFields) }

HandledClasses == {"firstName", "lastName", "address", "nid"}

\* the capabilities process_fields invokes on the first n boxes
FieldCalls(boxes, n) ==
    {"field_detector"}
        \cup { "reader" : i \in { j \in 1..n :
                    boxes[j].class_name \in {"firstName", "lastName", "address"} } }
        \cup { "nid_digit_detector" : i \in { j \in 1..n : boxes[j].class_name = "nid" } }

(***************************************************************************)
(* detect_and_process_id_card, step by step                                *)
(***************************************************************************)
StartCall ==
    /\ image = NoneImage /\ id_card_results = None /\ best_box = NoneImage
    /\ cropped_image = NoneImage /\ field_results = None /\ fields_locals = EmptyLocals
    /\ rec = EmptyRecord /\ calls = {} /\ caught = FALSE /\ outcome = None

InitPipeline ==
    /\ pc = "start"
    /\ models_loaded \in BOOLEAN
    /\ StartCall
    /\ IdleDecode /\ IdleExpand /\ IdleDigits /\ IdleApp

otherVars == <<decodeVars, expandVars, digitVars, models_loaded>>

\* if id_card_detector is None: return
CheckDetector ==
    /\ pc = "start"
    /\ IF models_loaded
       THEN pc' = "imread" /\ UNCHANGED outcome
       ELSE pc' = "done" /\ outcome' = "returned"
    /\ UNCHANGED <<image, id_card_results, best_box, cropped_image, field_results,
                   fields_locals, rec, calls, caught, otherVars, appVars>>

\* image = cv2.imread(image_path); if image is None: return
ReadImage ==
    /\ pc = "imread"
    /\ \E readable \in BOOLEAN :
        IF readable
        THEN image' = Photo /\ pc' = "detect_card" /\ UNCHANGED outcome
        ELSE image' = NoneImage /\ pc' = "done" /\ outcome' = "returned"
    /\ calls' = calls \cup {"imread"}
    /\ UNCHANGED <<id_card_results, best_box, cropped_image, field_results,
                   fields_locals, rec, caught, otherVars, appVars>>

\* id_card_results = id_card_detector(image)
DetectCard(answers) ==
    /\ pc = "detect_card"
    /\ \E answer \in answers : id_card_results' = answer
    /\ calls' = calls \cup {"id_card_detector"}
    /\ pc' = "select"
    /\ UNCHANGED <<image, best_box, cropped_image, field_results, fields_locals, rec,
                   caught, outcome, otherVars, appVars>>

DetectCardRaises ==
    /\ pc = "detect_card"
    /\ calls' = calls \cup {"id_card_detector"}
    /\ pc' = "except"
    /\ UNCHANGED <<image, id_card_results, best_box, cropped_image, field_results,
                   fields_locals, rec, caught, outcome, otherVars, appVars>>

\* the choice of the card box, the crop, and the test on cropped_image
SelectCard ==
    /\ pc = "select"
    /\ LET located == locate_card(image, id_card_results)
       IN  /\ best_box' = located.best_box
           /\ cropped_image' = located.cropped_image
           /\ IF located.cropped_image # NoneImage
              THEN pc' = "fields" /\ UNCHANGED outcome
              ELSE pc' = "done" /\ outcome' = "returned"
    /\ UNCHANGED <<image, id_card_results, field_results, fields_locals, rec, calls,
                   caught, otherVars, appVars>>

\* first_name, second_name, full_name, nid, address = process_fields(cropped_image)
ProcessFields(answers) ==
    /\ pc = "fields"
    /\ IF ~models_loaded
       THEN /\ UNCHANGED <<field_results, fields_locals, rec, calls>>
       ELSE \E answer \in answers :
            LET boxes == collect_boxes(answer)
                locals == process_boxes(cropped_image, models_loaded, boxes, Len(boxes))
                ret == fields_return(locals)
            IN  /\ field_results' = answer
                /\ fields_locals' = locals
                /\ calls' = calls \cup FieldCalls(boxes, Len(boxes))
                /\ rec' = [rec EXCEPT !.first_name = ret[1], !.second_name = ret[2],
                                      !.full_name = ret[3], !.nid = ret[4],
                                      !.address = ret[5]]
    /\ pc' = "decode"
    /\ UNCHANGED <<image, id_card_results, best_box, cropped_image, caught, outcome,
                   otherVars, appVars>>

\* the field detector, the debug save, the reader or the digit detector
\* raises while box n + 1 is handled (n = 0: possibly before the loop)
ProcessFieldsRaises(answers) ==
    /\ pc = "fields"
    /\ models_loaded
    /\ \E answer \in answers :
        LET boxes == collect_boxes(answer)
        IN  \E n \in 0..Max(Len(boxes) - 1, 0) :
                /\ IF n = 0 THEN TRUE ELSE boxes[n + 1].class_name \in HandledClasses
                /\ field_results' = answer
                /\ fields_locals' = process_boxes(cropped_image, models_loaded, boxes, n)
                /\ calls' = calls \cup FieldCalls(boxes, Min(n + 1, Len(boxes)))
    /\ pc' = "except"
    /\ UNCHANGED <<image, id_card_results, best_box, cropped_image, rec, caught,
                   outcome, otherVars, appVars>>

\* decoded_info = decode_egyptian_id(nid); birth, gov, gender = ...
DecodeId ==
    /\ pc = "decode"
    /\ LET decoded_info == decode_egyptian_id(rec.nid)
       IN  rec' = [rec EXCEPT !.birth = decoded_info["Birth Date"],
                              !.gov = decoded_info["Governorate"],
                              !.gender = decoded_info["Gender"]]
    /\ calls' = calls \cup {"decode_egyptian_id"}
    /\ pc' = "done"
    /\ outcome' = "returned"
    /\ UNCHANGED <<image, id_card_results, best_box, cropped_image, field_results,
                   fields_locals, caught, otherVars, appVars>>

\* except Exception as e: print(...)
HandleException ==
    /\ pc = "except"
    /\ caught' = TRUE
    /\ pc' = "done"
    /\ outcome' = exception_outcome
    /\ UNCHANGED <<image, id_card_results, best_box, cropped_image, field_results,
                   fields_locals, rec, calls, otherVars, appVars>>

NextPipeline ==
    \/ CheckDetector
    \/ ReadImage
    \/ DetectCard(CardAnswers)
    \/ DetectCardRaises
    \/ SelectCard
    \/ ProcessFields(FieldAnswers)
    \/ ProcessFieldsRaises(FieldAnswers)
    \/ DecodeId
    \/ HandleException

SpecPipeline == InitPipeline /\ [][NextPipeline]_vars

DetectorAnswered == "id_card_detector" \in calls /\ id_card_results # None

AfterSelection == pc \in {"fields", "decode", "except", "done"}

\* C5: when the card detector returns zero boxes for a readable image, the
\* call stops there: the field detector, the reader, the digit detector and
\* the decoder are never run, and the record returned is all empty.
C5_NoCardStopsPipeline ==
    (DetectorAnswered /\ ~card_found(id_card_results))
        => /\ pc \in {"select", "done"}
           /\ calls \cap {"field_detector", "reader", "nid_digit_detector",
                          "decode_egyptian_id"} = {}
           /\ rec = EmptyRecord
           /\ pc = "done" => outcome = "returned"

C5_Witness ==
    /\ pc = "done" /\ outcome = "returned"
    /\ image = Photo
    /\ id_card_results = <<<< >>>>
    /\ rec = EmptyRecord

\* the field detector yielded firstName and address regions, each read as
\* non-empty text, and no nid region
PartialScenario ==
    LET boxes == collect_boxes(field_results)
        classes == { boxes[i].class_name : i \in 1..Len(boxes) }
    IN  /\ {"firstName", "address"} \subseteq classes
        /\ "nid" \notin classes
        /\ \A i \in 1..Len(boxes) :
                boxes[i].class_name \in {"firstName", "address"}
                    => extract_text(boxes[i].ocr) # << >>

ReturnsWhatWasExtracted ==
    /\ rec.first_name = fields_locals.first_name
    /\ rec.second_name = fields_locals.second_name
    /\ rec.address = fields_locals.address
    /\ rec.nid = fields_locals.nid

PartialResult ==
    /\ rec.first_name # << >> /\ rec.address # << >>
    /\ rec.nid = << >> /\ rec.birth = << >> /\ rec.gov = "" /\ rec.gender = ""

\* C6 as stated: once a card has been located the call always ends with
\* whatever was extracted; with firstName and address read and no nid
\* region the record has firstName and address and an empty nationalId,
\* birthDate, governorate and gender.
C6_Original ==
    (pc = "done" /\ cropped_image # NoneImage)
        => /\ outcome = "returned"
           /\ ReturnsWhatWasExtracted
           /\ (field_results # None /\ PartialScenario) => PartialResult

\* C6 amended: once a card has been located the call always returns; when
\* no detector or reader call raised, the record holds whatever was
\* extracted (a missing field or a decode failure erases nothing, and with
\* firstName and address read and no nid region the record has both and an
\* empty nationalId, birthDate, governorate and gender); when one raised,
\* the record is all empty, the fields already read included.
C6_PartialResultUnlessRaised ==
    (pc = "done" /\ cropped_image # NoneImage)
        => /\ outcome = "returned"
           /\ IF caught
              THEN rec = EmptyRecord
              ELSE /\ ReturnsWhatWasExtracted
                   /\ PartialScenario => PartialResult

C6_Witness ==
    /\ pc = "done" /\ ~caught /\ outcome = "returned"
    /\ cropped_image # NoneImage
    /\ PartialScenario
    /\ rec.first_name = <<"A">>
    /\ rec.address = <<"C", " ", "D">>
    /\ rec.nid = << >> /\ rec.birth = << >> /\ rec.gov = "" /\ rec.gender = ""

ImageUnreadable == "imread" \in calls /\ image = NoneImage

\* C7 as stated: an image that does not decode reaches the caller as an
\* error, and it is the only condition that does.
C7_Original ==
    pc = "done" => (outcome = "raised" <=> ImageUnreadable)

\* C7 amended: an image that does not decode is absorbed like every other
\* failure: the call returns the all-empty record, and no condition (image
\* decoding, detection, recognition, decoding of the id) reaches the caller
\* as an error; a failure that raised inside the call gives the all-empty
\* record as well.
C7_EveryFailureAbsorbed ==
    pc = "done"
        => /\ outcome = "returned"
           /\ ImageUnreadable => rec = EmptyRecord
           /\ caught => rec = EmptyRecord

C7_Witness ==
    /\ pc = "done" /\ ImageUnreadable
    /\ outcome = "returned" /\ rec = EmptyRecord

\* C8: whenever the card detector returns one or more boxes, the crop is the
\* box of the largest area among them, whatever their order; of two boxes of
\* areas 100 and 400 it is the one of area 400.
C8_LargestBoxSelected ==
    (AfterSelection /\ id_card_results # None /\ card_found(id_card_results))
        => LET boxes == id_card_results[1]
           IN  /\ \E i \in 1..Len(boxes) : boxes[i] = best_box
               /\ \A i \in 1..Len(boxes) : Area(boxes[i]) <= Area(best_box)
               /\ cropped_image = best_box
               /\ boxes \in {<<CardBox100, CardBox400>>, <<CardBox400, CardBox100>>}
                    => Area(best_box) = 400

C8_Witness ==
    /\ pc = "done" /\ DetectorAnswered
    /\ id_card_results = <<<<CardBox100, CardBox400>>>>
    /\ best_box = CardBox400 /\ cropped_image = CardBox400
    /\ Area(CardBox100) = 100 /\ Area(CardBox400) = 400

(***************************************************************************)
(* APP.py: process_image_data, the Save button and Clear All Data          *)
(*                                                                         *)
(* A script run handles the click that started it.  A run started by Save  *)
(* or by Clear All Data processes the uploaded file again when there is    *)
(* one; the detectors are not assumed to repeat their earlier answer.      *)
(***************************************************************************)
Row(r) ==
    ("First Name" :> r.first_name) @@ ("Second Name" :> r.second_name) @@
    ("Full Name" :> r.full_name) @@ ("National ID" :> r.nid) @@
    ("Address" :> r.address) @@ ("Birth Date" :> r.birth) @@
    ("Governorate" :> r.gov) @@ ("Gender" :> r.gender)

Shown(message, save_offered) == [message |-> message, save_offered |-> save_offered]

NoFile == [exists |-> FALSE, rows |-> << >>]

AppCardAnswers == {<<<< >>>>, <<<<CardBox400>>>>}

AppFieldAnswers ==
    { <<<< >>>>,
      <<<<NidBox(<<1, 7, 9, 10>>, Digits159)>>>>,
      <<<<TextBox("firstName", <<1, 1, 8, 3>>, <<<<"A">>>>),
          NidBox(<<1, 7, 9, 10>>, DigitsExample)>>>>,
      <<<<TextBox("firstName", <<1, 1, 8, 3>>, <<<<"A">>>>),
          TextBox("address", <<1, 5, 8, 7>>, <<<<"C">>>>)>>>> }

\* the state at the entry of detect_and_process_id_card
BeginCall ==
    /\ image' = NoneImage /\ id_card_results' = None /\ best_box' = NoneImage
    /\ cropped_image' = NoneImage /\ field_results' = None
    /\ fields_locals' = EmptyLocals /\ rec' = EmptyRecord /\ calls' = {}
    /\ caught' = FALSE /\ outcome' = None

InitApp ==
    /\ pc = "idle"
    /\ models_loaded \in BOOLEAN
    /\ StartCall
    /\ id_database = << >>
    /\ db_file = NoFile
    /\ source = "none"
    /\ save_clicked = FALSE
    /\ ui = Shown("none", FALSE)
    /\ IdleDecode /\ IdleExpand /\ IdleDigits

\* A photo is captured or a file uploaded: process_image_data up to the call
\* of detect_and_process_id_card.  Image.open raises on bytes that are no
\* image, which only an upload can hold.
StartScan ==
    /\ pc \in {"idle", "shown"}
    /\ \E src \in {"camera", "upload"}, bytes_ok \in BOOLEAN :
        /\ bytes_ok \/ src = "upload"
        /\ source' = src
        /\ IF bytes_ok
           THEN pc' = "start" /\ ui' = Shown("none", FALSE)
           ELSE pc' = "shown" /\ ui' = Shown("error", FALSE)
    /\ save_clicked' = FALSE
    /\ BeginCall
    /\ UNCHANGED <<id_database, db_file, otherVars>>

\* Save is clicked: the script runs again with st.button returning True; the
\* uploaded file is processed again, a captured photo is not
ClickSave ==
    /\ pc = "shown"
    /\ ui.save_offered
    /\ IF source = "upload"
       THEN pc' = "start" /\ save_clicked' = TRUE
       ELSE pc' = "idle" /\ save_clicked' = FALSE
    /\ ui' = Shown("none", FALSE)
    /\ BeginCall
    /\ UNCHANGED <<id_database, db_file, source, otherVars>>

ReviewWithoutRetake ==
    /\ pc = "done"
    /\ IF outcome = "raised"
       THEN ui' = Shown("error", FALSE) /\ UNCHANGED <<id_database, db_file>>
       ELSE IF save_clicked
       THEN IF \E i \in 1..Len(id_database) :
                    id_database[i]["National ID"] = Row(rec)["National ID"]
            THEN /\ ui' = Shown("duplicate", TRUE)
                 /\ UNCHANGED <<id_database, db_file>>
            ELSE /\ id_database' = Append(id_database, Row(rec))
                 /\ \E written \in BOOLEAN :
                        IF written
                        THEN /\ db_file' = [exists |-> TRUE, rows |-> id_database']
                             /\ ui' = Shown("saved", TRUE)
                        ELSE /\ UNCHANGED db_file
                             /\ ui' = Shown("error", TRUE)
       ELSE ui' = Shown("results", TRUE) /\ UNCHANGED <<id_database, db_file>>
    /\ pc' = "shown"
    /\ UNCHANGED <<source, save_clicked, pipelineVars, otherVars>>

\* process_image_data after detect_and_process_id_card has returned: the
\* retake prompt, the results, the Save button and the saving
Review ==
    /\ pc = "done"
    /\ IF outcome = "raised"
       THEN ui' = Shown("error", FALSE) /\ UNCHANGED <<id_database, db_file>>
       ELSE IF rec.nid = << >>
       THEN ui' = Shown("retake", FALSE) /\ UNCHANGED <<id_database, db_file>>
       ELSE IF save_clicked
       THEN IF \E i \in 1..Len(id_database) :
                    id_database[i]["National ID"] = Row(rec)["National ID"]
            THEN /\ ui' = Shown("duplicate", TRUE)
                 /\ UNCHANGED <<id_database, db_file>>
            ELSE /\ id_database' = Append(id_database, Row(rec))
                 /\ \E written \in BOOLEAN :
                        IF written
                        THEN /\ db_file' = [exists |-> TRUE, rows |-> id_database']
                             /\ ui' = Shown("saved", TRUE)
                        ELSE /\ UNCHANGED db_file
                             /\ ui' = Shown("error", TRUE)
       ELSE ui' = Shown("results", TRUE) /\ UNCHANGED <<id_database, db_file>>
    /\ pc' = "shown"
    /\ UNCHANGED <<source, save_clicked, pipelineVars, otherVars>>

\* Clear All Data, offered while the list is not empty, then st.rerun()
ClearAll ==
    /\ pc \in {"idle", "shown"}
    /\ id_database # << >>
    /\ id_database' = << >>
    /\ db_file' = NoFile
    /\ IF source = "upload" THEN pc' = "start" ELSE pc' = "idle"
    /\ save_clicked' = FALSE
    /\ ui' = Shown("none", FALSE)
    /\ BeginCall
    /\ UNCHANGED <<source, otherVars>>

Next ==
    \/ StartScan
    \/ ClickSave
    \/ ClearAll
    \/ CheckDetector
    \/ ReadImage
    \/ DetectCard(AppCardAnswers)
    \/ DetectCardRaises
    \/ SelectCard
    \/ ProcessFields(AppFieldAnswers)
    \/ ProcessFieldsRaises(AppFieldAnswers)
    \/ DecodeId
    \/ HandleException
    \/ Review

Spec == InitApp /\ [][Next]_vars

\* C10: a scan whose nationalId is empty is shown as inconclusive with the
\* retake prompt and without the Save button, and no sequence of scans and
\* saves puts a row with an empty National ID in the database or its file.
C10_EmptyIdNeverSaved ==
    /\ (pc = "shown" /\ outcome = "returned" /\ rec.nid = << >>)
            => (ui.message = "retake" /\ ~ui.save_offered)
    /\ \A i \in 1..Len(id_database) : id_database[i]["National ID"] # << >>
    /\ \A i \in 1..Len(db_file.rows) : db_file.rows[i]["National ID"] # << >>

C10_Witness ==
    /\ pc = "shown" /\ outcome = "returned" /\ rec.nid = << >>
    /\ save_clicked
    /\ ui = Shown("retake", FALSE)
    /\ Len(id_database) = 1
====
